---- MODULE Spec2Model ----
(***************************************************************************)
(* PII Shield: password-based text encryption in the browser.              *)
(*                                                                         *)
(* The model follows src/src/lib/crypto.ts (encryptText, decryptText on    *)
(* Argon2id + AES-GCM with a Base64(JSON) envelope), the Settings tab that *)
(* writes the 'pii-shield-settings' item of localStorage, and the other    *)
(* versions of the crypto module kept in the repository.                   *)
(*                                                                         *)
(* Cryptography is symbolic: a derived key is the tuple of the KDF inputs, *)
(* sealed data is (key, iv, plaintext bytes, modified byte positions), a   *)
(* random byte array is (length, serial number of the draw).  Text         *)
(* conversions (TextEncoder / TextDecoder) and the envelope codecs (btoa,  *)
(* atob, JSON.stringify, JSON.parse) are modelled by what they do.         *)
(***************************************************************************)
EXTENDS Integers, Sequences, FiniteSets, TLC

(***************************************************************************)
(* Bounds of the model.                                                    *)
(***************************************************************************)
\* number of encryptText calls a behaviour may start
MaxEncrypts == 1

\* encryptText calls started in a session with two calls in flight
MaxCalls == 2

\* clicks on Encrypt All / Decrypt All in a session of the Paragraph Processor
MaxBatches == 2

(***************************************************************************)
(* JavaScript values.                                                      *)
(***************************************************************************)
\* a property that is absent from an object, or that holds undefined
Undefined == -1

\* the falsy numbers of `a || b`
Falsy(n) == n = Undefined \/ n = 0

\* a || b on numbers
OrElse(a, b) == IF Falsy(a) THEN b ELSE a

\* a string property that is absent
NoString == [t |-> "undefined"]

\* an object property that is absent
NoObject == [t |-> "undefined"]

(***************************************************************************)
(* Text.  A string is a sequence of UTF-16 units; the units the model      *)
(* tells apart are two letters, the space, the line feed, U+FEFF (byte     *)
(* order mark), U+FFFD (replacement character) and an unpaired surrogate.  *)
(***************************************************************************)
Units == {"a", "b", " ", "LF", "BOM", "RPL", "SUR"}

\* the unit that stands for the k-th produced envelope string (ASCII text)
EnvName(k) == "E" \o ToString(k)

\* UTF-8 bytes of one unit; an unpaired surrogate is encoded as U+FFFD, and
\* 1000 + k stands for the ASCII bytes of the k-th envelope string
Utf8Unit(u) ==
    CASE u = "a" -> <<97>>
      [] u = "b" -> <<98>>
      [] u = " " -> <<32>>
      [] u = "LF" -> <<10>>
      [] u = "BOM" -> <<239, 187, 191>>
      [] u = "RPL" -> <<239, 191, 189>>
      [] u = "SUR" -> <<239, 191, 189>>
      [] OTHER -> <<1000 + CHOOSE k \in 1..99 : EnvName(k) = u>>

RECURSIVE TextEncode(_)
\* new TextEncoder().encode(s)
TextEncode(s) ==
    IF s = <<>> THEN <<>> ELSE Utf8Unit(Head(s)) \o TextEncode(Tail(s))

RECURSIVE Utf8Decode(_)
\* the UTF-8 decoder: the sequences above, and U+FFFD for any other byte
Utf8Decode(b) ==
    IF b = <<>> THEN <<>>
    ELSE IF b[1] = 97 THEN <<"a">> \o Utf8Decode(Tail(b))
    ELSE IF b[1] = 98 THEN <<"b">> \o Utf8Decode(Tail(b))
    ELSE IF b[1] = 32 THEN <<" ">> \o Utf8Decode(Tail(b))
    ELSE IF b[1] = 10 THEN <<"LF">> \o Utf8Decode(Tail(b))
    ELSE IF b[1] > 1000 THEN <<EnvName(b[1] - 1000)>> \o Utf8Decode(Tail(b))
    ELSE IF Len(b) >= 3 /\ SubSeq(b, 1, 3) = <<239, 187, 191>>
         THEN <<"BOM">> \o Utf8Decode(SubSeq(b, 4, Len(b)))
    ELSE IF Len(b) >= 3 /\ SubSeq(b, 1, 3) = <<239, 191, 189>>
         THEN <<"RPL">> \o Utf8Decode(SubSeq(b, 4, Len(b)))
    ELSE <<"RPL">> \o Utf8Decode(Tail(b))

\* new TextDecoder().decode(b): ignoreBOM is false, a leading U+FEFF is dropped
TextDecode(b) ==
    LET s == Utf8Decode(b)
    IN  IF s # <<>> /\ s[1] = "BOM" THEN Tail(s) ELSE s

(***************************************************************************)
(* Byte arrays and the envelope codecs.                                    *)
(***************************************************************************)
\* crypto.getRandomValues(new Uint8Array(n)) at draw number k
RandomBytes(n, k) == [t |-> "rand", len |-> n, id |-> IF n = 0 THEN 0 ELSE k]

\* btoa over the bytes of an array
Btoa(x) == [t |-> "b64", of |-> x]

\* atob: the decoded value, or an InvalidCharacterError for a string that is
\* not Base64 (an absent property is the string "undefined", 9 characters)
AtobOk(s) == s.t = "b64"

Atob(s) == s.of

\* JSON.stringify of an object (absent and undefined properties read alike)
JsonStringify(o) == [t |-> "json", v |-> o]

\* JSON.parse succeeds on JSON text only
JsonParseOk(s) == s.t = "json"

JsonParse(s) == s.v

(***************************************************************************)
(* Parameter objects.  One record shape serves the encryption settings     *)
(* ({iterations, memory, hashLength}, or {iterations, saltLength,          *)
(* keyLength} in the PBKDF2 versions) and the params of an envelope        *)
(* ({iterations, memory, hashLen}); a property an object lacks is          *)
(* Undefined.                                                              *)
(***************************************************************************)
Params(it, mem, hashLength, hashLen, saltLength, keyLength) ==
    [t |-> "object", iterations |-> it, memory |-> mem, hashLength |-> hashLength,
     hashLen |-> hashLen, saltLength |-> saltLength, keyLength |-> keyLength]

\* {}
EmptyObject == Params(Undefined, Undefined, Undefined, Undefined, Undefined, Undefined)

\* null
Null == [t |-> "null"]

\* the defaults getEncryptionSettings returns when nothing is stored
DefaultIterations == 2

DefaultMemory == 102400

DefaultHashLength == 32

DefaultEncryption ==
    Params(DefaultIterations, DefaultMemory, DefaultHashLength, Undefined, Undefined, Undefined)

(***************************************************************************)
(* localStorage item 'pii-shield-settings'.                                *)
(***************************************************************************)
NoItem == [present |-> FALSE]

\* the item saveSettings writes for a settings object with this encryption part
Item(enc) == [present |-> TRUE, text |-> JsonStringify([t |-> "object", encryption |-> enc])]

\* crypto.ts getEncryptionSettings
getEncryptionSettings(st) ==
    IF ~st.present THEN DefaultEncryption
    ELSE IF ~JsonParseOk(st.text) THEN DefaultEncryption
    ELSE LET parsed == JsonParse(st.text)
         IN  IF parsed.t # "object" THEN DefaultEncryption
             ELSE IF parsed.encryption.t = "object" THEN parsed.encryption
             ELSE EmptyObject

(***************************************************************************)
(* Cryptographic primitives (symbolic).                                    *)
(***************************************************************************)
\* Argon2 refuses a salt shorter than 8 bytes
Argon2MinSalt == 8

\* argon2-browser: time || 1, mem || 1024, hashLen || 24
Argon2DefaultTime == 1

Argon2DefaultMem == 1024

Argon2DefaultHashLen == 24

\* argon2.hash({pass, salt, time, mem, hashLen, type: Argon2id})
\* argon2.hash called without the passphrase: the key depends on the salt only
Argon2KeyWithoutPass(pass, salt, time, mem, hashLen) ==
    [t |-> "key", kdf |-> "argon2id", pass |-> "", salt |-> salt,
     time |-> OrElse(time, Argon2DefaultTime), mem |-> OrElse(mem, Argon2DefaultMem),
     len |-> OrElse(hashLen, Argon2DefaultHashLen)]

Argon2Key(pass, salt, time, mem, hashLen) ==
    [t |-> "key", kdf |-> "argon2id", pass |-> pass, salt |-> salt,
     time |-> OrElse(time, Argon2DefaultTime), mem |-> OrElse(mem, Argon2DefaultMem),
     len |-> OrElse(hashLen, Argon2DefaultHashLen)]

Argon2Ok(salt) == salt.len >= Argon2MinSalt

\* crypto.subtle.importKey('raw', key, {name: 'AES-GCM'}): 128, 192 or 256 bits
ImportKeyOk(key) == key.len \in {16, 24, 32}

\* bytes of the AES-GCM authentication tag appended to the ciphertext
TagLength == 16

\* crypto.subtle.encrypt({name: 'AES-GCM', iv}, key, bytes)
AesGcmEncrypt(key, iv, bytes) ==
    [t |-> "sealed", len |-> Len(bytes) + TagLength, key |-> key, iv |-> iv,
     pt |-> bytes, flips |-> {}]

\* a decrypt that does not notice modified bytes (a cipher mode without a tag)
AesGcmDecryptOkUnverified(key, iv, data) ==
    /\ data.t = "sealed"
    /\ data.key = key
    /\ data.iv = iv

\* crypto.subtle.decrypt verifies the tag: same key, same iv, no byte modified
AesGcmDecryptOk(key, iv, data) ==
    /\ data.t = "sealed"
    /\ data.key = key
    /\ data.iv = iv
    /\ data.flips = {}

AesGcmDecrypt(key, iv, data) == data.pt

(***************************************************************************)
(* Inputs.                                                                 *)
(***************************************************************************)
\* plaintexts: a letter, and a text that starts with U+FEFF
Plaintexts == {<<"a">>, <<"BOM", "a">>}

\* secret phrases
Secrets == {"s1", "s2"}

\* the options of the Key Length select of the Settings tab
HashLengthOptions == {16, 32, 64}

\* positions of the Argon2 Iterations slider (1 to 10) the model tries
IterationOptions == {2, 3}

(***************************************************************************)
(* State.                                                                  *)
(***************************************************************************)
VARIABLES
    store,            \* localStorage item 'pii-shield-settings'
    settings,         \* SettingsTab: settings.encryption
    defaultSettings,  \* SettingsTab: defaultSettings.encryption
    aliased,          \* SettingsTab: settings.encryption is the object defaultSettings.encryption
    rng,              \* number of byte arrays drawn from crypto.getRandomValues
    started,          \* number of encryptText calls started
    call,             \* the encryptText / decryptText call in flight or last settled
    envelopes,        \* the envelopes produced so far, each with its plaintext and secret
    argon2,           \* part_001: the module binding argon2 holds the loaded library
    ui,               \* EncryptorTab: the variables of the component
    parked,           \* a second call, suspended at an await while `call` runs
    batch             \* ParagraphProcessorTab: the variables of the component

vars == <<store, settings, defaultSettings, aliased, rng, started, call, envelopes, argon2, ui,
          parked, batch>>

\* the empty string in a field that holds envelope text
EmptyText == [t |-> "raw", s |-> ""]

\* EncryptorTab.svelte lines 6-12: the component as mounted
UiInit ==
    [plaintext |-> <<>>, secret |-> "", ciphertext |-> EmptyText, errorMessage |-> "",
     isLoading |-> FALSE, isEncrypting |-> FALSE, showResult |-> FALSE]

\* part_001 lines 305-311: the Paragraph Processor as mounted (n, pc, paragraphs,
\* processed, calls, before, original: the position of processParagraphs, its
\* locals and the history of the batch; original: the paragraphs whose
\* encryption under the same secret phrase gave the input of this batch)
BatchInit ==
    [inputText |-> <<>>, secret |-> "", outputText |-> <<>>, mode |-> "encrypt",
     isProcessing |-> FALSE, errorMessage |-> "", successMessage |-> "",
     n |-> 0, pc |-> "idle", paragraphs |-> <<>>, processed |-> <<>>, calls |-> <<>>,
     before |-> <<>>, original |-> <<>>]

\* no call yet
Idle == [op |-> "idle", pc |-> "idle"]

\* a call that is not suspended at an await
Settled == call.pc \in {"idle", "resolved", "rejected", "invalid"}

(***************************************************************************)
(* Settings tab (src/src/lib/SettingsTab.svelte), encryption part.         *)
(***************************************************************************)
\* The script of the component runs at every mount: defaultSettings is built
\* anew, settings = { ...defaultSettings } shares its encryption object, and
\* onMount replaces settings by { ...defaultSettings, ...JSON.parse(saved) }
\* when an item is stored (lines 25-59).
onMount ==
    /\ defaultSettings' = DefaultEncryption
    /\ IF store.present /\ JsonParseOk(store.text)
       THEN /\ settings' = JsonParse(store.text).encryption
            /\ aliased' = FALSE
       ELSE /\ settings' = DefaultEncryption
            /\ aliased' = TRUE
    /\ UNCHANGED <<store, rng, started, call, envelopes, argon2, ui, parked, batch>>

\* an edit of a field bound to settings.encryption writes the object in place,
\* which is defaultSettings.encryption as long as the two are aliased
EditEncryption(enc) ==
    /\ settings.t = "object"
    /\ settings' = enc
    /\ defaultSettings' = IF aliased THEN enc ELSE defaultSettings
    /\ UNCHANGED <<store, aliased, rng, started, call, envelopes, argon2, ui, parked, batch>>

\* <select bind:value={settings.encryption.hashLength}> (lines 206-214)
setHashLength(v) == EditEncryption([settings EXCEPT !.hashLength = v])

\* <input type="range" bind:value={settings.encryption.iterations}> (lines 170-177)
setIterations(v) == EditEncryption([settings EXCEPT !.iterations = v])

\* saveSettings: localStorage.setItem('pii-shield-settings', JSON.stringify(settings))
\* (the save message and the theme are display state and are left out)
saveSettings ==
    /\ store' = Item(settings)
    /\ UNCHANGED <<settings, defaultSettings, aliased, rng, started, call, envelopes, argon2, ui, parked, batch>>

\* resetSettings, confirmed: settings = { ...defaultSettings }; saveSettings()
resetSettings ==
    /\ settings' = defaultSettings
    /\ aliased' = TRUE
    /\ store' = Item(defaultSettings)
    /\ UNCHANGED <<defaultSettings, rng, started, call, envelopes, argon2, ui, parked, batch>>

\* deepMerge (lines 100-113) on the encryption object: every property the
\* source carries is written into the target object
deepMerge(target, source) ==
    [k \in DOMAIN target |->
        IF k = "t" \/ source[k] = Undefined THEN target[k] ELSE source[k]]

\* texts pasted into the import box: an encryption of null, an encryption with
\* iterations 0, and text that is not JSON
ImportFiles ==
    {JsonStringify([t |-> "object", encryption |-> Null]),
     JsonStringify([t |-> "object",
                    encryption |-> Params(0, Undefined, Undefined, Undefined,
                                          Undefined, Undefined)]),
     [t |-> "text", s |-> "{"]}

\* importSettings (lines 116-126): settings = deepMerge({ ...defaultSettings },
\* imported); saveSettings().  The shallow copy shares the encryption object of
\* defaultSettings, so a merge into it writes defaultSettings as well.
importSettings(importExportData) ==
    /\ IF ~JsonParseOk(importExportData)
       THEN UNCHANGED <<settings, defaultSettings, aliased, store, ui, parked, batch>>
       ELSE LET enc == JsonParse(importExportData).encryption
                merged == IF enc.t = "object" THEN deepMerge(defaultSettings, enc)
                          ELSE IF enc.t = "null" THEN Null
                          ELSE defaultSettings
            IN  /\ settings' = merged
                /\ defaultSettings' = IF enc.t = "object" THEN merged ELSE defaultSettings
                /\ aliased' = (enc.t # "null")
                /\ store' = Item(merged)
    /\ UNCHANGED <<rng, started, call, envelopes, argon2, ui, parked, batch>>

(***************************************************************************)
(* crypto.ts encryptText, one action per stretch between awaits.           *)
(***************************************************************************)
encryptErrorMessage == "Unable to generate encryption key. Your device may be low on memory."

\* the same, with the settings it read written back to the Settings store
encryptText_enterStoring(plaintext, secret) ==
    /\ started' = started + 1
    /\ rng' = rng + 1
    /\ call' = [op |-> "encryptText", pc |-> "argon2", plaintext |-> plaintext,
                secret |-> secret, settings |-> getEncryptionSettings(store),
                salt |-> RandomBytes(16, rng + 1)]
    /\ store' = Item(getEncryptionSettings(store))
    /\ UNCHANGED <<settings, defaultSettings, aliased, envelopes, argon2, ui, parked, batch>>

\* lines 44-59: read the settings, draw the salt, call argon2.hash
encryptText_enter(plaintext, secret) ==
    /\ started' = started + 1
    /\ rng' = rng + 1
    /\ call' = [op |-> "encryptText", pc |-> "argon2", plaintext |-> plaintext,
                secret |-> secret, settings |-> getEncryptionSettings(store),
                salt |-> RandomBytes(16, rng + 1)]
    /\ UNCHANGED <<store, settings, defaultSettings, aliased, envelopes, argon2, ui, parked, batch>>

\* encryptText called while no other call is in flight
encryptText_start(plaintext, secret) ==
    /\ Settled
    /\ started < MaxEncrypts
    /\ encryptText_enter(plaintext, secret)

\* lines 52-74: argon2.hash settles; draw the nonce, call importKey
encryptText_derived ==
    /\ call.op = "encryptText" /\ call.pc = "argon2"
    /\ IF ~Argon2Ok(call.salt)
       THEN /\ call' = [op |-> "encryptText", pc |-> "rejected", plaintext |-> call.plaintext,
                        secret |-> call.secret, cause |-> "Argon2Error",
                        message |-> encryptErrorMessage]
            /\ rng' = rng
       ELSE /\ call' = [op |-> "encryptText", pc |-> "importKey", plaintext |-> call.plaintext,
                        secret |-> call.secret, settings |-> call.settings, salt |-> call.salt,
                        derivedKey |-> Argon2Key(call.secret, call.salt, call.settings.iterations,
                                                 call.settings.memory, call.settings.hashLength),
                        nonce |-> RandomBytes(12, rng + 1)]
            /\ rng' = rng + 1
    /\ UNCHANGED <<store, settings, defaultSettings, aliased, started, envelopes, argon2, ui, parked, batch>>

\* lines 68-87: importKey settles; encode the plaintext, call encrypt
encryptText_imported ==
    /\ call.op = "encryptText" /\ call.pc = "importKey"
    /\ IF ~ImportKeyOk(call.derivedKey)
       THEN call' = [op |-> "encryptText", pc |-> "rejected", plaintext |-> call.plaintext,
                     secret |-> call.secret, cause |-> "DataError",
                     message |-> encryptErrorMessage]
       ELSE call' = [call EXCEPT !.pc = "encrypt"]
    /\ UNCHANGED <<store, settings, defaultSettings, aliased, rng, started, envelopes, argon2, ui, parked, batch>>

\* a payload whose params are read from the Settings store again when it is built
PayloadOfSecondRead(salt, nonce, ciphertext, st) ==
    [t |-> "object", v |-> 1, salt |-> Btoa(salt), nonce |-> Btoa(nonce),
     ciphertext |-> Btoa(ciphertext),
     params |-> Params(getEncryptionSettings(store).iterations,
                       getEncryptionSettings(store).memory, Undefined,
                       getEncryptionSettings(store).hashLength, Undefined, Undefined)]

\* the payload of lines 91-102
Payload(salt, nonce, ciphertext, st) ==
    [t |-> "object", v |-> 1, salt |-> Btoa(salt), nonce |-> Btoa(nonce),
     ciphertext |-> Btoa(ciphertext),
     params |-> Params(st.iterations, st.memory, Undefined, st.hashLength, Undefined, Undefined)]

\* lines 80-108: encrypt settles; build the payload and return btoa(JSON.stringify(payload))
\* (changed: history, the stored Settings differ now from those read at the start)
encryptText_sealed ==
    /\ call.op = "encryptText" /\ call.pc = "encrypt"
    /\ "nonce" \in DOMAIN call
    /\ LET ciphertext == AesGcmEncrypt(call.derivedKey, call.nonce, TextEncode(call.plaintext))
           result == Btoa(JsonStringify(Payload(call.salt, call.nonce, ciphertext, call.settings)))
       IN  /\ call' = [op |-> "encryptText", pc |-> "resolved", plaintext |-> call.plaintext,
                       secret |-> call.secret, settings |-> call.settings, result |-> result,
                       changed |-> getEncryptionSettings(store) # call.settings]
           /\ envelopes' = Append(envelopes, [env |-> result, plaintext |-> call.plaintext,
                                              secret |-> call.secret,
                                              settings |-> call.settings])
    /\ UNCHANGED <<store, settings, defaultSettings, aliased, rng, started, argon2, ui, parked, batch>>

\* lines 44-108: the envelope encryptText returns when its random values are
\* those of draws k and k + 1
encryptText(plaintext, secret, st, k) ==
    LET enc == getEncryptionSettings(st)
        salt == RandomBytes(16, k)
        nonce == RandomBytes(12, k + 1)
        derivedKey == Argon2Key(secret, salt, enc.iterations, enc.memory, enc.hashLength)
    IN  Btoa(JsonStringify(Payload(salt, nonce,
                                   AesGcmEncrypt(derivedKey, nonce, TextEncode(plaintext)),
                                   enc)))

(***************************************************************************)
(* Envelope strings a caller may hand to decryptText: a produced envelope, *)
(* a produced envelope edited by hand, or text that is no envelope.        *)
(***************************************************************************)
PayloadOf(env) == JsonParse(Atob(env))

SealedOf(env) == Atob(PayloadOf(env).ciphertext)

\* the envelope with byte i of its sealed data (ciphertext + tag) changed
Tamper(env, i) ==
    LET payload == PayloadOf(env)
        sealed == SealedOf(env)
    IN  Btoa(JsonStringify([payload EXCEPT
            !.ciphertext = Btoa([sealed EXCEPT !.flips = @ \cup {i}])]))

\* the envelope with its params property removed (the payload of the first
\* version of encryptText carries salt, nonce and ciphertext only)
WithoutParams(env) ==
    Btoa(JsonStringify([PayloadOf(env) EXCEPT !.params = NoObject]))

\* the envelope with one of its Base64 string properties removed
WithoutString(env, f) ==
    Btoa(JsonStringify([PayloadOf(env) EXCEPT ![f] = NoString]))

StringFields == {"salt", "nonce", "ciphertext"}

\* byte lengths other than the 16 of a salt and the 12 of a nonce
OtherLengths == {0, 8}

\* the envelope with its salt or nonce (f) replaced by n other bytes
WithLength(env, f, n) ==
    Btoa(JsonStringify([PayloadOf(env) EXCEPT ![f] = Btoa(RandomBytes(n, 0))]))

\* a format version no encryptText of the repository writes
UnknownVersion == 99

\* the envelope with another format version in its v property
WithVersion(env, v) ==
    Btoa(JsonStringify([PayloadOf(env) EXCEPT !.v = v]))

\* "not-a-valid-envelope": not Base64
NotBase64 == [t |-> "raw", s |-> "not-a-valid-envelope"]

\* Base64 of text that is not JSON
NotJson == Btoa([t |-> "text", s |-> "hello"])

\* Base64 of "{}"
EmptyJson ==
    Btoa(JsonStringify([t |-> "object", v |-> Undefined, salt |-> NoString,
                        nonce |-> NoString, ciphertext |-> NoString, params |-> NoObject]))

\* Base64 of "null"
NullJson == Btoa(JsonStringify(Null))

Malformed == {NotBase64, NotJson, EmptyJson, NullJson}

(***************************************************************************)
(* crypto.ts decryptText.  A call carries, beside the locals of the code,  *)
(* a history record `from`: the produced envelope its input was taken from *)
(* (0 for none), the edit made to it, and whether the Settings in force    *)
(* when the call started differ from those the envelope was produced with. *)
(***************************************************************************)
decryptErrorMessage == "Decryption failed. Check secret phrase or input data."

From(src, edit) ==
    [src |-> src, edit |-> edit,
     changed |-> src > 0 /\ getEncryptionSettings(store) # envelopes[src].settings]

\* lines 125-139: the exception of the decoding steps, "none" when they pass
DecodeError(input) ==
    IF ~AtobOk(input) THEN "InvalidCharacterError"
    ELSE IF ~JsonParseOk(Atob(input)) THEN "SyntaxError"
    ELSE LET payload == JsonParse(Atob(input))
         IN  IF payload.t # "object" THEN "TypeError"
             ELSE IF ~AtobOk(payload.salt) \/ ~AtobOk(payload.nonce)
                     \/ ~AtobOk(payload.ciphertext) THEN "InvalidCharacterError"
             ELSE "none"

\* the params taken from the Settings although the payload carries its own
DecryptParamsFromSettings(payload, st) == getEncryptionSettings(st)

\* line 142: payload.params || getEncryptionSettings()
DecryptParams(payload, st) ==
    IF payload.params.t = "object" THEN payload.params ELSE getEncryptionSettings(st)

\* lines 145-152: the key argon2.hash derives for the decryption
DecryptKey(secret, salt, params) ==
    Argon2Key(secret, salt, params.iterations, params.memory,
              OrElse(params.hashLen, params.hashLength))

\* part_001, decryptText, lines 255-271: the Error thrown for a caught exception
\* (OperationError by its name, the SyntaxError of JSON.parse by the word
\* JSON in its message, any other by its own message)
part001_decryptMessage(cause) ==
    CASE cause = "OperationError" ->
            "Decryption failed. Check your secret phrase - it may be incorrect."
      [] cause = "SyntaxError" ->
            "Invalid encrypted data format. Please check your input."
      [] OTHER -> "Decryption failed: " \o cause

\* the message of the Error decryptText of the given file throws
DecryptMessage(file, cause) ==
    IF file = "part_001" THEN part001_decryptMessage(cause) ELSE decryptErrorMessage

\* a catch that swallows the exception and returns the empty string
DecryptSwallowed(c, cause) ==
    [op |-> "decryptText", pc |-> "resolved", input |-> c.input, secret |-> c.secret,
     from |-> c.from, file |-> c.file, result |-> <<>>]

\* lines 182-185: every exception is caught and replaced by one Error
DecryptRejected(c, cause) ==
    [op |-> "decryptText", pc |-> "rejected", input |-> c.input, secret |-> c.secret,
     from |-> c.from, file |-> c.file, cause |-> cause,
     message |-> DecryptMessage(c.file, cause)]

\* lines 125-152: decode the envelope, choose the params, call argon2.hash
Decoded(c) ==
    IF DecodeError(c.input) # "none"
    THEN DecryptRejected(c, DecodeError(c.input))
    ELSE LET payload == JsonParse(Atob(c.input))
         IN  [op |-> "decryptText", pc |-> "argon2", input |-> c.input,
              secret |-> c.secret, from |-> c.from, file |-> c.file,
              salt |-> Atob(payload.salt), nonce |-> Atob(payload.nonce),
              ciphertext |-> Atob(payload.ciphertext),
              params |-> DecryptParams(payload, store)]

\* lines 122-152: the call runs up to its first await
decryptText_begin(input, secret, src, edit) ==
    /\ Settled
    /\ call' = Decoded([input |-> input, secret |-> secret, from |-> From(src, edit),
                        file |-> "crypto.ts"])
    /\ UNCHANGED <<store, settings, defaultSettings, aliased, rng, started, envelopes, argon2, ui, parked, batch>>

\* decryptText on a produced envelope
decryptText_start(secret) ==
    \E i \in 1..Len(envelopes) :
        decryptText_begin(envelopes[i].env, secret, i, "none")

\* decryptText on a produced envelope whose params were removed
decryptText_noParams(secret) ==
    \E i \in 1..Len(envelopes) :
        decryptText_begin(WithoutParams(envelopes[i].env), secret, i, "params")

\* decryptText on a produced envelope that lost one of its strings
decryptText_noString(secret) ==
    \E i \in 1..Len(envelopes), f \in StringFields :
        decryptText_begin(WithoutString(envelopes[i].env, f), secret, i, f)

\* decryptText on a produced envelope with one byte of its sealed data changed
decryptText_tampered(secret) ==
    \E i \in 1..Len(envelopes) :
        \E b \in 1..SealedOf(envelopes[i].env).len :
            decryptText_begin(Tamper(envelopes[i].env, b), secret, i, "byte")

\* decryptText on a produced envelope whose v was replaced
decryptText_otherVersion(secret) ==
    \E i \in 1..Len(envelopes) :
        decryptText_begin(WithVersion(envelopes[i].env, UnknownVersion), secret, i, "version")

\* decryptText on a produced envelope whose salt or nonce has another length
decryptText_otherLength(secret) ==
    \E i \in 1..Len(envelopes), f \in {"salt", "nonce"}, n \in OtherLengths :
        decryptText_begin(WithLength(envelopes[i].env, f, n), secret, i, "length")

\* decryptText on text that is no envelope
decryptText_malformed(secret) ==
    \E input \in Malformed : decryptText_begin(input, secret, 0, "none")

\* lines 145-164: argon2.hash settles; call importKey
decryptText_derived ==
    /\ call.op = "decryptText" /\ call.pc = "argon2"
    /\ IF ~Argon2Ok(call.salt)
       THEN call' = DecryptRejected(call, "Argon2Error")
       ELSE call' = [op |-> "decryptText", pc |-> "importKey", input |-> call.input,
                     secret |-> call.secret, from |-> call.from, file |-> call.file,
                     nonce |-> call.nonce, ciphertext |-> call.ciphertext,
                     derivedKey |-> DecryptKey(call.secret, call.salt, call.params)]
    /\ UNCHANGED <<store, settings, defaultSettings, aliased, rng, started, envelopes, argon2, ui, parked, batch>>

\* lines 158-174: importKey settles; call decrypt
decryptText_imported ==
    /\ call.op = "decryptText" /\ call.pc = "importKey"
    /\ IF ~ImportKeyOk(call.derivedKey)
       THEN call' = DecryptRejected(call, "DataError")
       ELSE call' = [call EXCEPT !.pc = "decrypt"]
    /\ UNCHANGED <<store, settings, defaultSettings, aliased, rng, started, envelopes, argon2, ui, parked, batch>>

\* lines 167-185: decrypt settles; decode the text and return it
decryptText_opened ==
    /\ call.op = "decryptText" /\ call.pc = "decrypt"
    /\ IF ~AesGcmDecryptOk(call.derivedKey, call.nonce, call.ciphertext)
       THEN call' = DecryptRejected(call, "OperationError")
       ELSE call' = [op |-> "decryptText", pc |-> "resolved", input |-> call.input,
                     secret |-> call.secret, from |-> call.from, file |-> call.file,
                     result |-> TextDecode(AesGcmDecrypt(call.derivedKey, call.nonce,
                                                         call.ciphertext))]
    /\ UNCHANGED <<store, settings, defaultSettings, aliased, rng, started, envelopes, argon2, ui, parked, batch>>

\* what a settled call gave its caller
Outcome(c) ==
    [pc |-> c.pc,
     result |-> IF c.pc = "resolved" THEN c.result ELSE <<>>,
     message |-> IF c.pc = "rejected" THEN c.message ELSE ""]

\* decryptText run to its end on (input, secret) with st in the Settings store
decryptText(input, secret, st) ==
    LET rejected == [pc |-> "rejected", result |-> <<>>, message |-> decryptErrorMessage]
    IN  IF DecodeError(input) # "none" THEN rejected
        ELSE LET payload == JsonParse(Atob(input))
                 salt == Atob(payload.salt)
                 nonce == Atob(payload.nonce)
                 ciphertext == Atob(payload.ciphertext)
                 key == DecryptKey(secret, salt, DecryptParams(payload, st))
             IN  IF ~Argon2Ok(salt) \/ ~ImportKeyOk(key)
                    \/ ~AesGcmDecryptOk(key, nonce, ciphertext)
                 THEN rejected
                 ELSE [pc |-> "resolved", message |-> "",
                       result |-> TextDecode(AesGcmDecrypt(key, nonce, ciphertext))]

(***************************************************************************)
(* part_001: the crypto module that loads argon2-browser on first use.     *)
(* Its decryptText awaits initArgon2 before it decodes the envelope; the   *)
(* steps after that (lines 218-253) are those of crypto.ts, its catch      *)
(* (lines 255-271) is part001_decryptMessage.                              *)
(***************************************************************************)
\* lines 188-193: the call runs up to await initArgon2()
part001_decryptText_begin(input, secret, src, edit) ==
    /\ Settled
    /\ call' = [op |-> "decryptText", pc |-> "initArgon2", input |-> input,
                secret |-> secret, from |-> From(src, edit), file |-> "part_001"]
    /\ UNCHANGED <<store, settings, defaultSettings, aliased, rng, started, envelopes, argon2, ui, parked, batch>>

part001_decryptText_start(secret) ==
    \E i \in 1..Len(envelopes) :
        part001_decryptText_begin(envelopes[i].env, secret, i, "none")

part001_decryptText_tampered(secret) ==
    \E i \in 1..Len(envelopes) :
        \E b \in 1..SealedOf(envelopes[i].env).len :
            part001_decryptText_begin(Tamper(envelopes[i].env, b), secret, i, "byte")

part001_decryptText_noString(secret) ==
    \E i \in 1..Len(envelopes), f \in StringFields :
        part001_decryptText_begin(WithoutString(envelopes[i].env, f), secret, i, f)

part001_decryptText_malformed(secret) ==
    \E input \in Malformed : part001_decryptText_begin(input, secret, 0, "none")

\* lines 5-37 and 196-225: initArgon2 settles with the library bound to
\* argon2; decode the envelope, choose the params, call argon2Lib.hash
initArgon2 ==
    /\ call.op = "decryptText" /\ call.pc = "initArgon2"
    /\ argon2' = TRUE
    /\ call' = Decoded(call)
    /\ UNCHANGED <<store, settings, defaultSettings, aliased, rng, started, envelopes, ui, parked, batch>>

(***************************************************************************)
(* part_002, second file: the crypto module on PBKDF2 (Web Crypto only).   *)
(***************************************************************************)
WebCryptoDefaultIterations == 100000
WebCryptoDefaultSaltLength == 16
WebCryptoDefaultKeyLength == 32

\* lines 259-276
webcrypto_getEncryptionSettings(st) ==
    IF st.present /\ JsonParseOk(st.text)
    THEN LET enc == JsonParse(st.text).encryption
         IN  IF enc.t = "object" THEN enc ELSE EmptyObject
    ELSE Params(WebCryptoDefaultIterations, Undefined, Undefined, Undefined,
                WebCryptoDefaultSaltLength, WebCryptoDefaultKeyLength)

\* new Uint8Array(n): ToIndex(undefined) is 0
Uint8ArrayLength(n) == IF n = Undefined THEN 0 ELSE n

\* lines 292-303: deriveKey with PBKDF2 gives an AES-GCM key of 256 bits
Pbkdf2Key(password, salt, iterations) ==
    [t |-> "key", kdf |-> "pbkdf2", pass |-> password, salt |-> salt,
     time |-> iterations, len |-> 32]

\* PBKDF2 wants a positive iteration count
Pbkdf2Ok(iterations) == ~Falsy(iterations)

\* lines 355-358
webcrypto_encryptRejected(c, cause) ==
    [op |-> "encryptText", pc |-> "rejected", plaintext |-> c.plaintext,
     secret |-> c.secret, cause |-> cause, message |-> "Encryption failed: " \o cause]

\* lines 309-323 and 283-289: read the settings, draw salt and iv, import the
\* password
webcrypto_encryptText_start(plaintext, secret) ==
    /\ Settled
    /\ started < MaxEncrypts
    /\ started' = started + 1
    /\ rng' = rng + 2
    /\ LET st == webcrypto_getEncryptionSettings(store)
       IN  call' = [op |-> "encryptText", pc |-> "importPassword", plaintext |-> plaintext,
                    secret |-> secret, settings |-> st,
                    salt |-> RandomBytes(Uint8ArrayLength(st.saltLength), rng + 1),
                    iv |-> RandomBytes(12, rng + 2)]
    /\ UNCHANGED <<store, settings, defaultSettings, aliased, envelopes, argon2, ui, parked, batch>>

\* lines 283-303: the password is imported; call deriveKey
webcrypto_encryptText_imported ==
    /\ call.op = "encryptText" /\ call.pc = "importPassword"
    /\ IF ~Pbkdf2Ok(call.settings.iterations)
       THEN call' = webcrypto_encryptRejected(call, "OperationError")
       ELSE call' = [call EXCEPT !.pc = "deriveKey"]
    /\ UNCHANGED <<store, settings, defaultSettings, aliased, rng, started, envelopes, argon2, ui, parked, batch>>

\* lines 292-335: deriveKey settles; encode the plaintext, call encrypt
webcrypto_encryptText_derived ==
    /\ call.op = "encryptText" /\ call.pc = "deriveKey"
    /\ call' = [op |-> "encryptText", pc |-> "encrypt", plaintext |-> call.plaintext,
                secret |-> call.secret, settings |-> call.settings, salt |-> call.salt,
                iv |-> call.iv,
                key |-> Pbkdf2Key(call.secret, call.salt, call.settings.iterations)]
    /\ UNCHANGED <<store, settings, defaultSettings, aliased, rng, started, envelopes, argon2, ui, parked, batch>>

\* the payload of lines 340-351
webcrypto_Payload(salt, iv, ciphertext, st) ==
    [t |-> "object", v |-> 2, algorithm |-> "PBKDF2-SHA256", salt |-> Btoa(salt),
     iv |-> Btoa(iv), ciphertext |-> Btoa(ciphertext),
     params |-> Params(st.iterations, Undefined, Undefined, Undefined,
                       st.saltLength, st.keyLength)]

\* lines 328-353: encrypt settles; build the payload and return it
webcrypto_encryptText_sealed ==
    /\ call.op = "encryptText" /\ call.pc = "encrypt"
    /\ "iv" \in DOMAIN call
    /\ LET ciphertext == AesGcmEncrypt(call.key, call.iv, TextEncode(call.plaintext))
           result == Btoa(JsonStringify(webcrypto_Payload(call.salt, call.iv, ciphertext,
                                                          call.settings)))
       IN  /\ call' = [op |-> "encryptText", pc |-> "resolved", plaintext |-> call.plaintext,
                       secret |-> call.secret, settings |-> call.settings, result |-> result]
           /\ envelopes' = Append(envelopes, [env |-> result, plaintext |-> call.plaintext,
                                              secret |-> call.secret,
                                              settings |-> call.settings])
    /\ UNCHANGED <<store, settings, defaultSettings, aliased, rng, started, argon2, ui, parked, batch>>

(***************************************************************************)
(* part_002, first file: the PBKDF2 module with the compact binary         *)
(* envelope: version(1) + iterations(4) + salt(16) + iv(12) + ciphertext.  *)
(* Its getEncryptionSettings (lines 28-45) is that of the second file.     *)
(* An iteration count of this module is a number of up to 47 bits, kept as *)
(* [hi, lo] with value hi * 2^16 + lo; an absent count is Wide(-1, 0).     *)
(***************************************************************************)
Wide(hi, lo) == [t |-> "number", hi |-> hi, lo |-> lo]

\* DataView.setUint32 / getUint32: the count modulo 2^32 (NaN gives 0)
Uint32(n) == IF n.hi < 0 THEN Wide(0, 0) ELSE Wide(n.hi % 2^16, n.lo)

\* a deriveKey that takes any positive count
DeriveKeyOkAnyCount(n) == n.hi > 0 \/ (n.hi = 0 /\ n.lo > 0)

\* lines 60-72: deriveKey takes PBKDF2 iterations as an [EnforceRange] unsigned
\* long (a TypeError outside 0 .. 2^32 - 1) and PBKDF2 rejects the count 0
DeriveKeyOk(n) == (n.hi > 0 /\ n.hi < 2^16) \/ (n.hi = 0 /\ n.lo > 0)

\* lines 105-131: the bytes of an envelope
BinaryEnvelope(version, iterations, salt, iv, ciphertext) ==
    [t |-> "bytes", len |-> 1 + 4 + salt.len + iv.len + ciphertext.len,
     version |-> version, iterations |-> Uint32(iterations), salt |-> salt, iv |-> iv,
     ciphertext |-> ciphertext]

\* byte arrays handed to decryptText as Base64: some bytes of a header, a full
\* header of another version, a full header with no ciphertext, with count 0
BinaryInputs ==
    LET none == [t |-> "bytes", len |-> 0]
    IN  {[t |-> "bytes", len |-> 0, version |-> Undefined],
         [t |-> "bytes", len |-> 5, version |-> 2],
         [t |-> "bytes", len |-> 32, version |-> 2],
         [t |-> "bytes", len |-> 32, version |-> 1],
         BinaryEnvelope(1, Wide(0, 5), RandomBytes(16, 0), RandomBytes(12, 0), none),
         BinaryEnvelope(2, Wide(0, 5), RandomBytes(16, 0), RandomBytes(12, 0), none),
         BinaryEnvelope(2, Wide(0, 0), RandomBytes(16, 0), RandomBytes(12, 0), none)}

\* lines 79-138: encryptText, from the call to the returned Base64 string
\* (lines 28-45: the stored count, or 100000 = 1 * 2^16 + 34464)
binary_encryptText(plaintext, secret) ==
    /\ Settled
    /\ started < MaxEncrypts
    /\ started' = started + 1
    /\ rng' = rng + 2
    /\ LET iterations == IF store.present /\ JsonParseOk(store.text)
                         THEN webcrypto_getEncryptionSettings(store).iterations
                         ELSE Wide(WebCryptoDefaultIterations \div 2^16,
                                   WebCryptoDefaultIterations % 2^16)
           salt == RandomBytes(16, rng + 1)
           iv == RandomBytes(12, rng + 2)
           key == Pbkdf2Key(secret, salt, iterations)
           result == Btoa(BinaryEnvelope(2, iterations, salt, iv,
                                         AesGcmEncrypt(key, iv, TextEncode(plaintext))))
       IN  IF ~DeriveKeyOk(iterations)
           THEN /\ call' = [op |-> "encryptText", pc |-> "rejected", file |-> "binary",
                            plaintext |-> plaintext, secret |-> secret,
                            message |-> "Encryption failed: OperationError"]
                /\ envelopes' = envelopes
           ELSE /\ call' = [op |-> "encryptText", pc |-> "resolved", file |-> "binary",
                            plaintext |-> plaintext, secret |-> secret, result |-> result]
                /\ envelopes' = Append(envelopes, [env |-> result, plaintext |-> plaintext,
                                                   secret |-> secret,
                                                   settings |-> [iterations |-> iterations]])
    /\ UNCHANGED <<store, settings, defaultSettings, aliased, argon2, ui, parked, batch>>

\* a check of the header that looks at the length only
BinaryFormatErrorOfLength(data) ==
    IF data.len < 33 THEN "Invalid encrypted data format" ELSE ""

\* lines 150-162: the message of the Error thrown for the decoded bytes, or ""
BinaryFormatError(data) ==
    IF data.len < 33 THEN "Invalid encrypted data format"
    ELSE IF data.version # 2
    THEN "Unsupported encryption version: " \o ToString(data.version)
    ELSE ""

\* lines 143-182: decode, check length and version, read the header, call deriveKey
binary_decryptText_start(encryptedPayload, secret, src) ==
    /\ Settled
    /\ LET c == [op |-> "decryptText", file |-> "binary", input |-> encryptedPayload,
                 secret |-> secret, src |-> src]
           Rejected(message) ==
               [c EXCEPT !.op = "decryptText"] @@ [pc |-> "rejected", message |-> message]
       IN  IF ~AtobOk(encryptedPayload)
           THEN call' = Rejected("Decryption failed: InvalidCharacterError")
           ELSE IF BinaryFormatError(Atob(encryptedPayload)) # ""
           THEN call' = Rejected("Decryption failed: "
                                     \o BinaryFormatError(Atob(encryptedPayload)))
           ELSE call' = c @@ [pc |-> "deriveKey",
                              iterations |-> Atob(encryptedPayload).iterations,
                              salt |-> Atob(encryptedPayload).salt,
                              iv |-> Atob(encryptedPayload).iv,
                              ciphertext |-> Atob(encryptedPayload).ciphertext]
    /\ UNCHANGED <<store, settings, defaultSettings, aliased, rng, started, envelopes,
                   argon2, ui, parked, batch>>

\* lines 182-205: deriveKey and decrypt settle
binary_decryptText_settled ==
    /\ call.op = "decryptText" /\ call.pc = "deriveKey" /\ call.file = "binary"
    /\ LET key == Pbkdf2Key(call.secret, call.salt, call.iterations)
           c == [op |-> "decryptText", file |-> "binary", input |-> call.input,
                 secret |-> call.secret, src |-> call.src, iterations |-> call.iterations]
       IN  IF ~DeriveKeyOk(call.iterations)
              \/ ~AesGcmDecryptOk(key, call.iv, call.ciphertext)
           THEN call' = c @@ [pc |-> "rejected",
                              message |-> "Decryption failed. Check your secret phrase."]
           ELSE call' = c @@ [pc |-> "resolved",
                              result |-> TextDecode(AesGcmDecrypt(key, call.iv,
                                                                  call.ciphertext))]
    /\ UNCHANGED <<store, settings, defaultSettings, aliased, rng, started, envelopes,
                   argon2, ui, parked, batch>>

(***************************************************************************)
(* Encryptor tab (src/src/lib/EncryptorTab.svelte).  A click on a button   *)
(* is modelled together with the typing that filled the fields before it.  *)
(***************************************************************************)
\* the white space String.prototype.trim removes, among the units of the model
WhiteSpace == {" ", "LF", "BOM"}

\* !plaintext.trim()
TrimIsEmptyText(text) == \A i \in 1..Len(text) : text[i] \in WhiteSpace

\* !secret.trim()
TrimIsEmpty(secret) == secret \in {"", " "}

\* !ciphertext.trim()
TrimIsEmptyEnvelope(c) == c.t = "raw" /\ c.s \in {"", " "}

\* what the user types into the plaintext and secret fields
UiTexts == {<<>>, <<" ">>, <<"a">>}
UiSecrets == {"", "s1", "s2"}

\* lines 15-32: handleEncrypt up to its first await (the button is disabled
\* while isLoading)
handleEncrypt(plaintext, secret) ==
    /\ ~ui.isLoading
    /\ started < MaxEncrypts
    /\ LET typed == [ui EXCEPT !.plaintext = plaintext, !.secret = secret]
       IN  IF TrimIsEmptyText(plaintext)
           THEN /\ ui' = [typed EXCEPT !.errorMessage = "Please enter some text to encrypt."]
                /\ call' = [op |-> "handleEncrypt", pc |-> "invalid"]
           ELSE IF TrimIsEmpty(secret)
           THEN /\ ui' = [typed EXCEPT !.errorMessage = "Please enter a secret phrase."]
                /\ call' = [op |-> "handleEncrypt", pc |-> "invalid"]
           ELSE /\ ui' = [typed EXCEPT !.isLoading = TRUE, !.isEncrypting = TRUE,
                                       !.showResult = FALSE, !.errorMessage = ""]
                /\ call' = [op |-> "handleEncrypt", pc |-> "delay"]
    /\ UNCHANGED <<store, settings, defaultSettings, aliased, rng, started, envelopes, argon2, parked, batch>>

\* lines 32-34: the 100 ms timer fires; encryptText(plaintext, secret) is
\* called with the values the two fields hold now
handleEncrypt_delayed ==
    /\ call.op = "handleEncrypt" /\ call.pc = "delay"
    /\ encryptText_enter(ui.plaintext, ui.secret)

\* lines 34-42: encryptText settled; show the result or the error, finally
handleEncrypt_settled ==
    /\ ui.isLoading /\ ui.isEncrypting
    /\ call.op = "encryptText" /\ call.pc \in {"resolved", "rejected"}
    /\ ui' = IF call.pc = "resolved"
             THEN [ui EXCEPT !.ciphertext = call.result, !.showResult = TRUE,
                             !.isLoading = FALSE, !.isEncrypting = FALSE]
             ELSE [ui EXCEPT !.errorMessage = "Encryption failed. Please try again.",
                             !.isLoading = FALSE, !.isEncrypting = FALSE]
    /\ UNCHANGED <<store, settings, defaultSettings, aliased, rng, started, call,
                   envelopes, argon2, parked, batch>>

\* lines 46-60: handleDecrypt up to its first await, which is the first await
\* of decryptText(ciphertext, secret)
handleDecrypt(ciphertext, secret, src) ==
    /\ ~ui.isLoading
    /\ LET typed == [ui EXCEPT !.ciphertext = ciphertext, !.secret = secret]
       IN  IF TrimIsEmptyEnvelope(ciphertext)
           THEN /\ ui' = [typed EXCEPT
                              !.errorMessage = "Please enter encrypted text to decrypt."]
                /\ call' = [op |-> "handleDecrypt", pc |-> "invalid"]
           ELSE IF TrimIsEmpty(secret)
           THEN /\ ui' = [typed EXCEPT !.errorMessage = "Please enter the secret phrase."]
                /\ call' = [op |-> "handleDecrypt", pc |-> "invalid"]
           ELSE /\ ui' = [typed EXCEPT !.isLoading = TRUE, !.showResult = FALSE,
                                       !.errorMessage = ""]
                /\ call' = Decoded([input |-> ciphertext, secret |-> secret,
                                    from |-> From(src, "none"), file |-> "crypto.ts"])
    /\ UNCHANGED <<store, settings, defaultSettings, aliased, rng, started, envelopes, argon2, parked, batch>>

\* handleDecrypt on the empty field or on a produced envelope pasted into it
handleDecrypt_click(secret) ==
    \/ handleDecrypt(EmptyText, secret, 0)
    \/ \E i \in 1..Len(envelopes) : handleDecrypt(envelopes[i].env, secret, i)

\* the same, with a catch that also empties the plaintext field
handleDecrypt_settledClearing ==
    /\ ui.isLoading /\ ~ui.isEncrypting
    /\ call.op = "decryptText" /\ call.pc \in {"resolved", "rejected"}
    /\ ui' = IF call.pc = "resolved"
             THEN [ui EXCEPT !.plaintext = call.result, !.showResult = TRUE,
                             !.isLoading = FALSE]
             ELSE [ui EXCEPT !.errorMessage =
                                 "Decryption failed. Check your secret phrase or encrypted data.",
                             !.plaintext = <<>>, !.isLoading = FALSE]
    /\ UNCHANGED <<store, settings, defaultSettings, aliased, rng, started, call,
                   envelopes, argon2, parked, batch>>

\* lines 60-67: decryptText settled; show the result or the error, finally
handleDecrypt_settled ==
    /\ ui.isLoading /\ ~ui.isEncrypting
    /\ call.op = "decryptText" /\ call.pc \in {"resolved", "rejected"}
    /\ ui' = IF call.pc = "resolved"
             THEN [ui EXCEPT !.plaintext = call.result, !.showResult = TRUE,
                             !.isLoading = FALSE]
             ELSE [ui EXCEPT !.errorMessage =
                                 "Decryption failed. Check your secret phrase or encrypted data.",
                             !.isLoading = FALSE]
    /\ UNCHANGED <<store, settings, defaultSettings, aliased, rng, started, call,
                   envelopes, argon2, parked, batch>>

\* lines 71-77: clearAll (its button is never disabled)
clearAll ==
    /\ ui' = [ui EXCEPT !.plaintext = <<>>, !.secret = "", !.ciphertext = EmptyText,
                        !.errorMessage = "", !.showResult = FALSE]
    /\ UNCHANGED <<store, settings, defaultSettings, aliased, rng, started, call,
                   envelopes, argon2, parked, batch>>

\* App.svelte (part_003 lines 8-10, 53-56): the user leaves the Encryptor tab
\* and comes back; {#if activeTab === 'encryptor'} destroys the component
\* and mounts a new one, while a call the old one started goes on
remount ==
    /\ Settled \/ parked = Idle
    /\ ui' = UiInit
    /\ IF Settled
       THEN UNCHANGED <<call, parked>>
       ELSE call' = Idle /\ parked' = call
    /\ UNCHANGED <<store, settings, defaultSettings, aliased, rng, started, envelopes,
                   argon2, batch>>

(***************************************************************************)
(* Paragraph Processor (src/unnamed/part_001 lines 300-357) over the       *)
(* crypto-webcrypto module (part_002).  In a text an envelope string is    *)
(* one unit, named after its place among the produced envelopes.           *)
(***************************************************************************)
\* part_002 lines 309-359, as one call: the k-th draws of the random source
webcrypto_encryptText(plaintext, secret, st, k) ==
    LET s == webcrypto_getEncryptionSettings(st)
        salt == RandomBytes(Uint8ArrayLength(s.saltLength), k + 1)
        iv == RandomBytes(12, k + 2)
        key == Pbkdf2Key(secret, salt, s.iterations)
    IN  IF ~Pbkdf2Ok(s.iterations)
        THEN [ok |-> FALSE, message |-> "Encryption failed: OperationError"]
        ELSE [ok |-> TRUE, message |-> "",
              result |-> Btoa(JsonStringify(webcrypto_Payload(
                             salt, iv, AesGcmEncrypt(key, iv, TextEncode(plaintext)), s)))]

\* part_002 lines 364-404, as one call
webcrypto_decryptText(encryptedPayload, secret, st) ==
    LET Failed(cause) ==
            [ok |-> FALSE,
             message |-> IF cause = "OperationError"
                         THEN "Decryption failed. Check your secret phrase."
                         ELSE "Decryption failed: " \o cause]
    IN  IF ~AtobOk(encryptedPayload) THEN Failed("InvalidCharacterError")
        ELSE IF ~JsonParseOk(Atob(encryptedPayload)) THEN Failed("SyntaxError")
        ELSE LET payload == JsonParse(Atob(encryptedPayload))
             IN  IF payload.t # "object" THEN Failed("TypeError")
                 ELSE IF \E f \in {"salt", "iv", "ciphertext"} :
                             f \notin DOMAIN payload \/ ~AtobOk(payload[f])
                 THEN Failed("InvalidCharacterError")
                 ELSE LET params == IF payload.params.t = "object" THEN payload.params
                                    ELSE webcrypto_getEncryptionSettings(st)
                          key == Pbkdf2Key(secret, Atob(payload.salt), params.iterations)
                          iv == Atob(payload.iv)
                          ciphertext == Atob(payload.ciphertext)
                      IN  IF ~Pbkdf2Ok(params.iterations) THEN Failed("OperationError")
                          ELSE IF ~AesGcmDecryptOk(key, iv, ciphertext)
                          THEN Failed("OperationError")
                          ELSE [ok |-> TRUE, message |-> "",
                                result |-> TextDecode(AesGcmDecrypt(key, iv, ciphertext))]

\* the string a trimmed paragraph is: a produced envelope, or no Base64 at all
EnvelopeOf(text) ==
    IF Len(text) = 1 /\ \E k \in 1..Len(envelopes) : EnvName(k) = text[1]
    THEN envelopes[CHOOSE k \in 1..Len(envelopes) : EnvName(k) = text[1]].env
    ELSE NotBase64

\* String.prototype.trim
Trim(text) ==
    LET black == {i \in 1..Len(text) : text[i] \notin WhiteSpace}
    IN  IF black = {} THEN <<>>
        ELSE SubSeq(text, CHOOSE i \in black : \A j \in black : i <= j,
                          CHOOSE i \in black : \A j \in black : i >= j)

\* the end of the leftmost-longest match of /\n\s*\n/ that starts at i, or 0
SeparatorEnd(text, i) ==
    LET ends == {j \in (i + 1)..Len(text) :
                     /\ text[j] = "LF"
                     /\ \A k \in (i + 1)..(j - 1) : text[k] \in WhiteSpace}
    IN  IF text[i] # "LF" \/ ends = {} THEN 0
        ELSE CHOOSE j \in ends : \A k \in ends : j >= k

RECURSIVE Split(_)
\* line 325: inputText.split(/\n\s*\n/)
Split(text) ==
    LET starts == {i \in 1..Len(text) : SeparatorEnd(text, i) > 0}
    IN  IF starts = {} THEN <<text>>
        ELSE LET i == CHOOSE i \in starts : \A j \in starts : i <= j
             IN  <<SubSeq(text, 1, i - 1)>>
                     \o Split(SubSeq(text, SeparatorEnd(text, i) + 1, Len(text)))

RECURSIVE Join(_)
\* line 342: processed.join('\n\n')
Join(processed) ==
    IF processed = <<>> THEN <<>>
    ELSE IF Len(processed) = 1 THEN processed[1]
    ELSE processed[1] \o <<"LF", "LF">> \o Join(Tail(processed))

\* the texts typed into the input field: paragraphs to encrypt, with blank
\* lines, blank paragraphs, an unpaired surrogate; then paragraphs to decrypt
BatchTexts ==
    {<<>>, <<" ">>, <<"a">>, <<"a", "LF", "b">>, <<"a", "LF", "LF", "b">>,
     <<"a", "LF", " ", "LF", "LF", "b", " ">>, <<"LF", "LF", "a">>, <<"a", "LF", "LF">>,
     <<"SUR">>, <<"E1", "LF", "LF", "a">>, <<"E1", "LF", "LF", "E2">>}

\* lines 313-325: Encrypt All / Decrypt All is clicked, after the fields were filled
processParagraphs(text, secret, mode, original) ==
    /\ ~batch.isProcessing
    /\ batch.n < MaxBatches
    /\ IF TrimIsEmptyText(text) \/ TrimIsEmpty(secret)
       THEN batch' = [batch EXCEPT !.inputText = text, !.secret = secret, !.mode = mode,
                                   !.errorMessage = "Please provide both text and secret phrase.",
                                   !.n = @ + 1, !.pc = "invalid", !.original = original]
       ELSE batch' = [batch EXCEPT !.inputText = text, !.secret = secret, !.mode = mode,
                                   !.errorMessage = "", !.successMessage = "",
                                   !.isProcessing = TRUE, !.n = @ + 1, !.pc = "running",
                                   !.paragraphs = Split(text), !.processed = <<>>,
                                   !.calls = <<>>, !.before = batch.outputText,
                                   !.original = original]
    /\ UNCHANGED <<store, settings, defaultSettings, aliased, rng, started, call, envelopes,
                   argon2, ui, parked>>

\* the user copies the output of an encrypt batch into the input field, picks
\* the mode decrypt and clicks
processParagraphs_pasted ==
    /\ batch.pc = "ok" /\ batch.mode = "encrypt"
    /\ \E secret \in UiSecrets :
           processParagraphs(batch.outputText, secret, "decrypt",
                             IF \A i \in 1..Len(batch.calls) :
                                    batch.calls[i].secret = secret
                             THEN batch.paragraphs ELSE <<>>)

\* the catch and finally of lines 344-348, with a catch that also shows the
\* paragraphs processed so far
CaughtWithOutput(b, message) ==
    [b EXCEPT !.errorMessage = (IF b.mode = "encrypt" THEN "Encryption" ELSE "Decryption")
                                   \o " failed. " \o message,
              !.outputText = Join(b.processed),
              !.isProcessing = FALSE, !.pc = "failed"]

\* the catch and finally of lines 344-348
Caught(b, message) ==
    [b EXCEPT !.errorMessage = (IF b.mode = "encrypt" THEN "Encryption" ELSE "Decryption")
                                   \o " failed. " \o message,
              !.isProcessing = FALSE, !.pc = "failed"]

\* lines 327-348: with `pushed` for the paragraphs done, the loop goes on or,
\* after the last one, the output and the success message are set
Pushed(b, pushed) ==
    IF Len(pushed) < Len(b.paragraphs)
    THEN [b EXCEPT !.processed = pushed]
    ELSE [b EXCEPT !.processed = pushed, !.outputText = Join(pushed),
                   !.successMessage =
                       "Successfully " \o b.mode \o "ed "
                           \o ToString(Cardinality({i \in 1..Len(pushed) : pushed[i] # <<>>}))
                           \o " paragraph(s)!",
                   !.isProcessing = FALSE, !.pc = "ok"]

\* lines 328-340: the next paragraph; a paragraph with text is handed to
\* encryptText or decryptText with the secret phrase of the field as it is now
processParagraphs_next ==
    /\ batch.pc = "running"
    /\ LET paragraph == batch.paragraphs[Len(batch.processed) + 1]
           called == [batch EXCEPT !.calls = Append(@, [op |-> batch.mode,
                                                       text |-> Trim(paragraph),
                                                       secret |-> batch.secret])]
           encrypted == webcrypto_encryptText(Trim(paragraph), batch.secret, store, rng)
           decrypted == webcrypto_decryptText(EnvelopeOf(Trim(paragraph)), batch.secret, store)
       IN  IF Trim(paragraph) = <<>>
           THEN /\ batch' = Pushed(batch, Append(batch.processed, <<>>))
                /\ UNCHANGED <<rng, envelopes>>
           ELSE IF batch.mode = "encrypt"
           THEN /\ rng' = rng + 2
                /\ IF encrypted.ok
                   THEN /\ envelopes' = Append(envelopes,
                                               [env |-> encrypted.result,
                                                plaintext |-> Trim(paragraph),
                                                secret |-> batch.secret,
                                                settings |-> webcrypto_getEncryptionSettings(store)])
                        /\ batch' = Pushed(called, Append(batch.processed,
                                                          <<EnvName(Len(envelopes) + 1)>>))
                   ELSE /\ envelopes' = envelopes
                        /\ batch' = Caught(called, encrypted.message)
           ELSE /\ UNCHANGED <<rng, envelopes>>
                /\ IF decrypted.ok
                   THEN batch' = Pushed(called, Append(batch.processed, decrypted.result))
                   ELSE batch' = Caught(called, decrypted.message)
    /\ UNCHANGED <<store, settings, defaultSettings, aliased, started, call, argon2, ui, parked>>

\* the secret phrase field is edited while a batch runs (the field is never disabled)
batch_editSecret(secret) ==
    /\ batch.isProcessing
    /\ batch' = [batch EXCEPT !.secret = secret]
    /\ UNCHANGED <<store, settings, defaultSettings, aliased, rng, started, call, envelopes,
                   argon2, ui, parked>>

\* lines 351-356
batch_clearAll ==
    /\ batch' = [batch EXCEPT !.inputText = <<>>, !.outputText = <<>>, !.errorMessage = "",
                              !.successMessage = "",
                              !.pc = IF batch.isProcessing THEN @ ELSE "idle"]
    /\ UNCHANGED <<store, settings, defaultSettings, aliased, rng, started, call, envelopes,
                   argon2, ui, parked>>

(***************************************************************************)
(* Two calls in flight.  Each action above runs the call in `call` from    *)
(* one await to the next; the other call waits in `parked`, and the event  *)
(* loop resumes it by exchanging the two.                                  *)
(***************************************************************************)
\* the same, with the derived key held in one module-level variable
resumeOtherSharedKey ==
    /\ call' = IF "derivedKey" \in DOMAIN call /\ "derivedKey" \in DOMAIN parked
               THEN [parked EXCEPT !.derivedKey = call.derivedKey]
               ELSE parked
    /\ parked' = call
    /\ UNCHANGED <<store, settings, defaultSettings, aliased, rng, started, envelopes,
                   argon2, ui, batch>>

\* the event loop turns to the other call (or to a caller that starts one)
resumeOther ==
    /\ call' = parked
    /\ parked' = call
    /\ UNCHANGED <<store, settings, defaultSettings, aliased, rng, started, envelopes,
                   argon2, ui, batch>>

\* encryptText called while another call may be suspended
encryptText_concurrent(plaintext, secret) ==
    /\ Settled
    /\ started < MaxCalls
    /\ encryptText_enter(plaintext, secret)

(***************************************************************************)
(* calculatePasswordStrength (src/src/lib/crypto.ts lines 193-213).  A     *)
(* password is the sequence of its UTF-16 code units; "LS" is U+2028, a    *)
(* line terminator, which the `.` of a regular expression does not match.  *)
(***************************************************************************)
LowerCase == {"a", "b"}
UpperCase == {"A"}
Digits == {"1"}
LineTerminators == {"LS"}
Chars == LowerCase \cup UpperCase \cup Digits \cup {"!"} \cup LineTerminators

\* /[...]/.test(password): some code unit is in the class
Test(class, password) == \E i \in 1..Len(password) : password[i] \in class

\* /^[...]+$/.test(password): one or more code units, all in the class
TestAll(class, password) ==
    /\ Len(password) >= 1
    /\ \A i \in 1..Len(password) : password[i] \in class

\* /(.)\1{2,}/.test(password): a code unit `.` matches, followed twice by itself
TestRepeated(password) ==
    \E i \in 1..(Len(password) - 2) :
        /\ password[i] \notin LineTerminators
        /\ password[i + 1] = password[i]
        /\ password[i + 2] = password[i]

\* only the first length threshold counts
LengthPointsFirstOnly(length) ==
    IF length >= 8 THEN 20 ELSE 0

\* lines 197-199
LengthPoints(length) ==
    (IF length >= 8 THEN 20 ELSE 0) + (IF length >= 12 THEN 10 ELSE 0)
        + (IF length >= 16 THEN 10 ELSE 0)

\* lines 202-205
DiversityPoints(password) ==
    (IF Test(LowerCase, password) THEN 10 ELSE 0)
        + (IF Test(UpperCase, password) THEN 10 ELSE 0)
        + (IF Test(Digits, password) THEN 10 ELSE 0)
        + (IF Test(Chars \ (LowerCase \cup UpperCase \cup Digits), password) THEN 20 ELSE 0)

\* lines 208-210
PatternPoints(password) ==
    (IF TestRepeated(password) THEN -10 ELSE 0)
        + (IF TestAll(Digits, password) THEN -10 ELSE 0)
        + (IF TestAll(LowerCase \cup UpperCase, password) THEN -10 ELSE 0)

\* the sum of lines 194-210, before line 212
Strength(password) ==
    LengthPoints(Len(password)) + DiversityPoints(password) + PatternPoints(password)

\* a return without the clamp
Unclamped(strength) == strength

\* line 212: Math.max(0, Math.min(100, strength))
Clamp(strength) ==
    LET min == IF 100 <= strength THEN 100 ELSE strength
    IN  IF 0 >= min THEN 0 ELSE min

calculatePasswordStrength(password) == Clamp(Strength(password))

\* the passwords handed to the function: a head of up to MaxHead code units,
\* then a tail that brings the length to the thresholds of lines 197-199
MaxHead == 3

Repeat(c, n) == [i \in 1..n |-> c]

Passwords ==
    LET TailLengths == {0, 5, 8, 9, 12, 13, 16}
        Heads == UNION {[1..n -> Chars] : n \in 0..MaxHead}
        Cycle(n) == [i \in 1..n |-> <<"a", "A", "1", "!">>[((i - 1) % 4) + 1]]
        Tails == {Repeat(c, n) : c \in {"a", "1"}, n \in TailLengths}
                     \cup {Cycle(n) : n \in TailLengths}
    IN  {h \o t : h \in Heads, t \in Tails}

\* a caller evaluates calculatePasswordStrength(password)
calculatePasswordStrength_call(password) ==
    /\ call = Idle
    /\ call' = [op |-> "calculatePasswordStrength", pc |-> "returned",
                password |-> password, result |-> calculatePasswordStrength(password)]
    /\ UNCHANGED <<store, settings, defaultSettings, aliased, rng, started, envelopes,
                   argon2, ui, parked, batch>>

(***************************************************************************)
(* Specifications.                                                         *)
(***************************************************************************)
\* the items the Settings tab can have stored in an earlier session
StoredItems ==
    {NoItem} \cup
    {Item([DefaultEncryption EXCEPT !.iterations = i, !.hashLength = h]) :
        i \in IterationOptions, h \in HashLengthOptions}

\* Spec: a session that edits and saves the Settings while it encrypts and
\* decrypts with crypto.ts.
Init ==
    /\ store = NoItem
    /\ settings = DefaultEncryption
    /\ defaultSettings = DefaultEncryption
    /\ aliased = TRUE
    /\ rng = 0
    /\ started = 0
    /\ call = Idle
    /\ envelopes = <<>>
    /\ argon2 = FALSE
    /\ ui = UiInit
    /\ parked = Idle
    /\ batch = BatchInit

Next ==
    \/ \E v \in HashLengthOptions : setHashLength(v)
    \/ \E v \in IterationOptions : setIterations(v)
    \/ saveSettings
    \/ \E p \in Plaintexts, s \in Secrets : encryptText_start(p, s)
    \/ encryptText_derived
    \/ encryptText_imported
    \/ encryptText_sealed
    \/ \E s \in Secrets : decryptText_start(s)
    \/ decryptText_derived
    \/ decryptText_imported
    \/ decryptText_opened

Spec == Init /\ [][Next]_vars

\* SpecInputs: a session that starts with any stored Settings and hands
\* decryptText produced, edited and malformed envelope strings.
InitInputs ==
    /\ store \in StoredItems
    /\ settings = DefaultEncryption
    /\ defaultSettings = DefaultEncryption
    /\ aliased = TRUE
    /\ rng = 0
    /\ started = 0
    /\ call = Idle
    /\ envelopes = <<>>
    /\ argon2 = FALSE
    /\ ui = UiInit
    /\ parked = Idle
    /\ batch = BatchInit

NextInputs ==
    \/ \E p \in Plaintexts, s \in Secrets : encryptText_start(p, s)
    \/ encryptText_derived
    \/ encryptText_imported
    \/ encryptText_sealed
    \/ \E s \in Secrets : decryptText_start(s)
    \/ \E s \in Secrets : decryptText_noParams(s)
    \/ \E s \in Secrets : decryptText_noString(s)
    \/ \E s \in Secrets : decryptText_tampered(s)
    \/ \E s \in Secrets : decryptText_malformed(s)
    \/ \E s \in Secrets : decryptText_otherVersion(s)
    \/ \E s \in Secrets : decryptText_otherLength(s)
    \/ decryptText_derived
    \/ decryptText_imported
    \/ decryptText_opened

SpecInputs == InitInputs /\ [][NextInputs]_vars

\* SpecPart001: a session of the part_001 module that is handed an envelope
\* of an earlier session, as produced, edited, or replaced by other text.
InitPart001 ==
    /\ store = NoItem
    /\ settings = DefaultEncryption
    /\ defaultSettings = DefaultEncryption
    /\ aliased = TRUE
    /\ rng = 2
    /\ started = 1
    /\ call = Idle
    /\ \E p \in Plaintexts, s \in Secrets :
           envelopes = <<[env |-> encryptText(p, s, NoItem, 1), plaintext |-> p,
                          secret |-> s, settings |-> DefaultEncryption]>>
    /\ argon2 = FALSE
    /\ ui = UiInit
    /\ parked = Idle
    /\ batch = BatchInit

NextPart001 ==
    \/ \E s \in Secrets : part001_decryptText_start(s)
    \/ \E s \in Secrets : part001_decryptText_tampered(s)
    \/ \E s \in Secrets : part001_decryptText_noString(s)
    \/ \E s \in Secrets : part001_decryptText_malformed(s)
    \/ initArgon2
    \/ decryptText_derived
    \/ decryptText_imported
    \/ decryptText_opened

SpecPart001 == InitPart001 /\ [][NextPart001]_vars

\* SpecWebCrypto: a session that edits and saves the Settings while it
\* encrypts with the PBKDF2 module.
NextWebCrypto ==
    \/ \E v \in HashLengthOptions : setHashLength(v)
    \/ \E v \in IterationOptions : setIterations(v)
    \/ saveSettings
    \/ \E p \in Plaintexts, s \in Secrets : webcrypto_encryptText_start(p, s)
    \/ webcrypto_encryptText_imported
    \/ webcrypto_encryptText_derived
    \/ webcrypto_encryptText_sealed

SpecWebCrypto == Init /\ [][NextWebCrypto]_vars

\* SpecImport: a session in which Settings are also imported, reset and
\* reloaded while crypto.ts encrypts and decrypts.
NextImport ==
    \/ \E f \in ImportFiles : importSettings(f)
    \/ \E v \in IterationOptions : setIterations(v)
    \/ saveSettings
    \/ resetSettings
    \/ onMount
    \/ \E p \in Plaintexts, s \in Secrets : encryptText_start(p, s)
    \/ encryptText_derived
    \/ encryptText_imported
    \/ encryptText_sealed
    \/ \E s \in Secrets : decryptText_start(s)
    \/ decryptText_derived
    \/ decryptText_imported
    \/ decryptText_opened

SpecImport == Init /\ [][NextImport]_vars

\* SpecEncryptorTab: a session in the Encryptor tab.
NextEncryptorTab ==
    \/ \E p \in UiTexts, s \in UiSecrets : handleEncrypt(p, s)
    \/ handleEncrypt_delayed
    \/ encryptText_derived
    \/ encryptText_imported
    \/ encryptText_sealed
    \/ handleEncrypt_settled
    \/ \E s \in UiSecrets : handleDecrypt_click(s)
    \/ decryptText_derived
    \/ decryptText_imported
    \/ decryptText_opened
    \/ handleDecrypt_settled
    \/ clearAll
    \/ remount

SpecEncryptorTab == InitInputs /\ [][NextEncryptorTab]_vars

\* SpecConcurrent: a session with up to two encryptText / decryptText calls
\* in flight, of crypto.ts and of the part_001 module, under default Settings.
NextConcurrent ==
    \/ resumeOther
    \/ \E i \in {[plaintext |-> <<"a">>, secret |-> "s1"],
                 [plaintext |-> <<"BOM", "a">>, secret |-> "s2"]} :
           encryptText_concurrent(i.plaintext, i.secret)
    \/ encryptText_derived
    \/ encryptText_imported
    \/ encryptText_sealed
    \/ \E s \in Secrets : decryptText_start(s)
    \/ \E s \in Secrets : part001_decryptText_start(s)
    \/ initArgon2
    \/ decryptText_derived
    \/ decryptText_imported
    \/ decryptText_opened

SpecConcurrent == Init /\ [][NextConcurrent]_vars

\* SpecStrength: calculatePasswordStrength applied to each password.
NextStrength == \E password \in Passwords : calculatePasswordStrength_call(password)

SpecStrength == Init /\ [][NextStrength]_vars

\* SpecBatch: a session in the Paragraph Processor.
NextBatch ==
    \/ \E text \in BatchTexts, secret \in UiSecrets, mode \in {"encrypt", "decrypt"} :
           processParagraphs(text, secret, mode, <<>>)
    \/ processParagraphs_pasted
    \/ processParagraphs_next
    \/ \E s \in UiSecrets : batch_editSecret(s)
    \/ batch_clearAll

SpecBatch == Init /\ [][NextBatch]_vars

\* SpecBinary: a session with the binary-envelope module, under a stored
\* Settings item with any iteration count, or none.
InitBinary ==
    /\ store \in {NoItem} \cup
           {Item(Params(n, Undefined, Undefined, Undefined, Undefined, Undefined)) :
                n \in {Wide(-1, 0), Wide(0, 0), Wide(0, 1), Wide(2^16 - 1, 2^16 - 1),
                       Wide(2^16, 0), Wide(2^16, 5)}}
    /\ settings = DefaultEncryption
    /\ defaultSettings = DefaultEncryption
    /\ aliased = TRUE
    /\ rng = 0
    /\ started = 0
    /\ call = Idle
    /\ envelopes = <<>>
    /\ argon2 = FALSE
    /\ ui = UiInit
    /\ parked = Idle
    /\ batch = BatchInit

NextBinary ==
    \/ \E p \in Plaintexts, s \in Secrets : binary_encryptText(p, s)
    \/ \E s \in Secrets, i \in 1..Len(envelopes) :
           binary_decryptText_start(envelopes[i].env, s, i)
    \/ \E s \in Secrets, d \in BinaryInputs : binary_decryptText_start(Btoa(d), s, 0)
    \/ \E s \in Secrets : binary_decryptText_start(NotBase64, s, 0)
    \/ binary_decryptText_settled

SpecBinary == InitBinary /\ [][NextBinary]_vars

(***************************************************************************)
(* Properties.                                                             *)
(***************************************************************************)
\* a decryptText call on produced envelope number call.from.src, as produced
OnProduced == call.op = "decryptText" /\ call.from.src > 0 /\ call.from.edit = "none"

\* the passphrase of the call is the one its envelope was produced with
RightSecret == call.secret = envelopes[call.from.src].secret

\* the call returned the plaintext its envelope was produced from
ReturnedPlaintext ==
    call.pc = "resolved" /\ call.result = envelopes[call.from.src].plaintext

\* C1: round trip. encryptText(P, S) yields an envelope for every plaintext
\* P, passphrase S and Settings the Settings tab can store, and decryptText
\* of that envelope with S returns exactly P.
RoundTrip ==
    /\ (call.op = "encryptText" /\ Settled) => call.pc = "resolved"
    /\ (OnProduced /\ RightSecret /\ Settled) => ReturnedPlaintext

ParameterPreservation ==
    (OnProduced /\ RightSecret /\ call.from.changed /\ Settled) => ReturnedPlaintext

\* the part of C4 that concerns the key: under changed Settings the embedded
\* params re-derive the key, so the call returns the decoded plaintext bytes
EmbeddedParamsHonoured ==
    (OnProduced /\ RightSecret /\ call.from.changed /\ Settled) =>
        /\ call.pc = "resolved"
        /\ call.result = TextDecode(TextEncode(envelopes[call.from.src].plaintext))

\* C6: fresh salt and nonce. Two produced envelopes differ in salt, in nonce
\* and as strings, also for equal plaintext and passphrase, and each decrypts
\* back to its plaintext under its passphrase.
FreshSaltAndNonce ==
    /\ \A i, j \in 1..Len(envelopes) :
           i # j => /\ PayloadOf(envelopes[i].env).salt # PayloadOf(envelopes[j].env).salt
                    /\ PayloadOf(envelopes[i].env).nonce # PayloadOf(envelopes[j].env).nonce
                    /\ envelopes[i].env # envelopes[j].env
    /\ \A i \in 1..Len(envelopes) :
           (OnProduced /\ call.from.src = i /\ call.secret = envelopes[i].secret
                /\ Settled) =>
               (call.pc = "resolved" /\ call.result = envelopes[i].plaintext)

\* the part of C6 that concerns the random values only
SaltAndNonceDiffer ==
    \A i, j \in 1..Len(envelopes) :
        i # j => /\ PayloadOf(envelopes[i].env).salt # PayloadOf(envelopes[j].env).salt
                 /\ PayloadOf(envelopes[i].env).nonce # PayloadOf(envelopes[j].env).nonce
                 /\ envelopes[i].env # envelopes[j].env

\* C8: key length. The key handed to importKey is 256 bits long whatever
\* hashLength (16, 32 or 64) the Settings hold.
KeyIs256Bits ==
    call.pc = "importKey" => call.derivedKey.len * 8 = 256

\* C3: tamper detection. decryptText of a produced envelope with one byte of
\* its ciphertext or tag changed, called with the right passphrase, never
\* returns a plaintext: it rejects because the tag does not verify.
TamperDetected ==
    (call.op = "decryptText" /\ call.from.edit = "byte" /\ RightSecret) =>
        /\ call.pc # "resolved"
        /\ Settled => /\ call.pc = "rejected"
                      /\ call.cause = "OperationError"
                      /\ call.message = decryptErrorMessage

TamperedRejected ==
    /\ call.op = "decryptText" /\ call.from.edit = "byte" /\ RightSecret
    /\ call.pc = "rejected"
    /\ call.cause = "OperationError"

CarriesParams(input) ==
    /\ AtobOk(input)
    /\ JsonParseOk(Atob(input))
    /\ JsonParse(Atob(input)).t = "object"
    /\ JsonParse(Atob(input)).params.t = "object"

StepsAgree ==
    (call.op = "decryptText" /\ Settled) =>
        decryptText(call.input, call.secret, store) = Outcome(call)

\* exceptions of the decoding steps of decryptText (atob, JSON.parse, property
\* reads on the parsed value)
StructuralCauses == {"InvalidCharacterError", "SyntaxError", "TypeError"}

\* the input of the call is no well-formed envelope: it is no produced
\* envelope, or a produced one that lost a field
NotWellFormed ==
    /\ call.op = "decryptText"
    /\ call.from.src = 0 \/ call.from.edit \in StringFields \cup {"params"}

NonceOf(payload) == IF payload.v = 2 THEN payload.iv ELSE payload.nonce

\* C7: salt and nonce lengths. Every produced envelope carries a salt of 16
\* bytes and a nonce of 12 bytes, whatever the stored Settings are.
SaltAndNonceLengths ==
    \A i \in 1..Len(envelopes) :
        LET payload == PayloadOf(envelopes[i].env)
        IN  /\ Atob(payload.salt).len = 16
            /\ Atob(NonceOf(payload)).len = 12

\* C9: one failure message. Every rejected decryptText call carries the
\* message a wrong passphrase gets, so the caller cannot tell a wrong
\* passphrase from corrupted or malformed input.
SameFailureMessage ==
    (call.op = "decryptText" /\ call.pc = "rejected") =>
        call.message = DecryptMessage(call.file, "OperationError")

UnsupportedVersionRejected ==
    (call.op = "decryptText" /\ call.from.edit = "version") => call.pc = "rejected"

\* C12: field validation. decryptText of a decoded envelope that lacks its
\* salt, nonce, ciphertext or params, or whose salt is not 16 bytes or whose
\* nonce is not 12 bytes, is rejected as malformed before any key derivation.
InvalidFieldsRejected ==
    (call.op = "decryptText"
        /\ call.from.edit \in StringFields \cup {"params", "length"}) =>
        (call.pc = "rejected" /\ call.cause \in StructuralCauses)

\* the part of C12 that the decoding steps do enforce: an envelope without
\* its salt, nonce or ciphertext is rejected before any key derivation
MissingStringRejected ==
    (call.op = "decryptText" /\ call.from.edit \in StringFields) =>
        (call.pc = "rejected" /\ call.cause \in StructuralCauses)

\* C13: one read of the Settings. The params embedded in a produced envelope
\* are those of the Settings read when its encryptText call started, and they
\* re-derive the key its data is sealed with, also when the Settings were
\* changed while the call was suspended.
ParamsSnapshot ==
    \A i \in 1..Len(envelopes) :
        LET payload == PayloadOf(envelopes[i].env)
            st == envelopes[i].settings
        IN  /\ payload.params =
                   Params(st.iterations, st.memory, Undefined, st.hashLength,
                          Undefined, Undefined)
            /\ SealedOf(envelopes[i].env).key =
                   DecryptKey(envelopes[i].secret, Atob(payload.salt), payload.params)

SettingsChangedMeanwhile ==
    /\ call.op = "encryptText" /\ call.pc = "resolved"
    /\ "changed" \in DOMAIN call
    /\ call.changed

\* the Settings store supplies no encryption parameters
NoStoredEncryption ==
    \/ ~store.present
    \/ ~JsonParseOk(store.text)
    \/ JsonParse(store.text).encryption.t # "object"

\* C14: built-in defaults. getEncryptionSettings returns time cost 2, memory
\* 102400 KiB and key length 32 whenever the Settings store supplies no
\* encryption parameters.
DefaultsWhenUnset ==
    NoStoredEncryption => getEncryptionSettings(store) = DefaultEncryption

\* C15: cost factor 0. An encryptText call that read a cost factor of 0 from
\* the Settings fails at the key derivation: it never gets past argon2.hash
\* and returns no envelope.
CostFactorZeroRejected ==
    (call.op = "encryptText" /\ call.pc \in {"importKey", "encrypt", "resolved"}) =>
        call.settings.iterations # 0

\* C16: empty input. No key derivation or cipher operation is run for an
\* empty plaintext, an empty envelope or an empty passphrase: encryptText and
\* decryptText are never called with one.
EmptyInputRejected ==
    /\ call.op = "encryptText" => (call.plaintext # <<>> /\ call.secret # "")
    /\ call.op = "decryptText" => (call.input # EmptyText /\ call.secret # "")

\* what a decryptText call on a produced envelope gives when it runs alone
AloneDecrypted(c) ==
    IF c.secret = envelopes[c.from.src].secret
    THEN /\ c.pc = "resolved"
         /\ c.result = TextDecode(TextEncode(envelopes[c.from.src].plaintext))
    ELSE /\ c.pc = "rejected"
         /\ c.message = DecryptMessage(c.file, "OperationError")

\* what an encryptText call gives when it runs alone: an envelope that carries
\* the stored Settings and opens under the secret of the call to its plaintext
AloneEncrypted(c) ==
    /\ PayloadOf(c.result).params = Params(getEncryptionSettings(store).iterations,
                                           getEncryptionSettings(store).memory, Undefined,
                                           getEncryptionSettings(store).hashLength,
                                           Undefined, Undefined)
    /\ decryptText(c.result, c.secret, store).pc = "resolved"
    /\ decryptText(c.result, c.secret, store).result = TextDecode(TextEncode(c.plaintext))

Scored == call.op = "calculatePasswordStrength"

\* C18: calculatePasswordStrength returns an integer from 0 to 100 for every
\* password.
StrengthInRange ==
    Scored => (call.result \in Int /\ call.result >= 0 /\ call.result <= 100)

\* a password whose sum is negative got 0
ClampedAtZero ==
    Scored /\ Strength(call.password) < 0 /\ call.result = 0

\* the reference score: +20, +10, +10 for a length of 8, 12, 16 or more; +10
\* for each of lowercase, uppercase, digit present and +20 for a symbol; -10
\* for a run of three or more identical characters, -10 for all digits, -10
\* for all letters; clamped to 0..100
ReferenceScore(password) ==
    LET n == Len(password)
        has(class) == \E i \in 1..n : password[i] \in class
        all(class) == n >= 1 /\ \A i \in 1..n : password[i] \in class
        letters == LowerCase \cup UpperCase
        run == \E i \in 1..(n - 2) : password[i] = password[i + 1] /\ password[i] = password[i + 2]
        sum == (IF n >= 8 THEN 20 ELSE 0) + (IF n >= 12 THEN 10 ELSE 0)
                   + (IF n >= 16 THEN 10 ELSE 0)
                   + (IF has(LowerCase) THEN 10 ELSE 0) + (IF has(UpperCase) THEN 10 ELSE 0)
                   + (IF has(Digits) THEN 10 ELSE 0)
                   + (IF has(Chars \ (letters \cup Digits)) THEN 20 ELSE 0)
                   - (IF run THEN 10 ELSE 0) - (IF all(Digits) THEN 10 ELSE 0)
                   - (IF all(letters) THEN 10 ELSE 0)
    IN  IF sum < 0 THEN 0 ELSE IF sum > 100 THEN 100 ELSE sum

\* C19: calculatePasswordStrength equals the additive reference score clamped
\* to 0..100.
EqualsReferenceScore ==
    Scored => call.result = ReferenceScore(call.password)

\* the same for the passwords without a run of line terminators
EqualsReferenceOnOneLine ==
    (Scored /\ ~\E i \in 1..(Len(call.password) - 2) :
                    /\ call.password[i] \in LineTerminators
                    /\ call.password[i + 1] = call.password[i]
                    /\ call.password[i + 2] = call.password[i])
        => call.result = ReferenceScore(call.password)

MixesAllClasses(password) ==
    /\ Test(LowerCase, password) /\ Test(UpperCase, password) /\ Test(Digits, password)
    /\ Test(Chars \ (LowerCase \cup UpperCase \cup Digits), password)

\* C20: the boundaries. The empty password scores 0; 16 identical lowercase
\* letters score 30, less than their length alone gives; a password of 16 or
\* more characters with lowercase, uppercase, digit and symbol scores 90, or
\* 80 when it has a run of three identical characters.
StrengthBoundaries ==
    Scored =>
        /\ call.password = <<>> => call.result = 0
        /\ (\E c \in LowerCase : call.password = Repeat(c, 16))
               => (call.result = 30 /\ call.result < LengthPoints(16))
        /\ (Len(call.password) >= 16 /\ MixesAllClasses(call.password))
               => call.result \in {80, 90}

MixedLongWithRun ==
    /\ Scored
    /\ Len(call.password) >= 16 /\ MixesAllClasses(call.password)
    /\ TestRepeated(call.password)
    /\ call.result = 80

\* the calls a batch over the paragraphs makes: the trimmed paragraphs with text
ExpectedCalls(paragraphs) ==
    SelectSeq([i \in 1..Len(paragraphs) |-> Trim(paragraphs[i])], LAMBDA t : t # <<>>)

CallTexts(calls) == [i \in 1..Len(calls) |-> calls[i].text]

\* a batch that has come to its end with success
BatchSucceeded == batch.pc = "ok" /\ batch.n > 0

\* the split, the order and the number of the calls, the places of the empty
\* segments: what C21 says apart from the passphrase
BatchSegments ==
    /\ batch.pc \in {"running", "ok", "failed"} =>
           /\ \A i \in 1..Len(batch.paragraphs) :
                  \A j \in 1..Len(batch.paragraphs[i]) :
                      SeparatorEnd(batch.paragraphs[i], j) = 0
           /\ Len(batch.calls) <= Len(ExpectedCalls(batch.paragraphs))
           /\ CallTexts(batch.calls)
                  = SubSeq(ExpectedCalls(batch.paragraphs), 1, Len(batch.calls))
           /\ \A i \in 1..Len(batch.calls) : batch.calls[i].op = batch.mode
    /\ BatchSucceeded =>
           /\ CallTexts(batch.calls) = ExpectedCalls(batch.paragraphs)
           /\ Len(batch.processed) = Len(batch.paragraphs)
           /\ \A i \in 1..Len(batch.paragraphs) :
                  Trim(batch.paragraphs[i]) = <<>> => batch.processed[i] = <<>>

\* C21: a batch splits the input on blank lines and calls encryptText or
\* decryptText once per segment with text, in input order and with one and
\* the same passphrase; on success the output has a segment per input
\* segment, empty where the input segment was empty.
BatchCallsInOrder ==
    /\ BatchSegments
    /\ \A i, j \in 1..Len(batch.calls) : batch.calls[i].secret = batch.calls[j].secret

\* C22: one aggregate outcome. The step of processParagraphs that ends a
\* batch with a failure sets an error message and no success message, leaves
\* outputText as it is and resets isProcessing; the step that ends it with
\* success sets a success message and no error message; while a batch runs
\* outputText holds no partial output.
BatchAggregateOutcome ==
    /\ [](batch.pc = "running" => (batch.isProcessing /\ batch.outputText \in {batch.before, <<>>}))
    /\ [][/\ (batch.pc = "running" /\ batch'.pc = "failed") =>
                 /\ batch'.errorMessage # "" /\ batch'.successMessage = ""
                 /\ batch'.outputText = batch.outputText
                 /\ ~batch'.isProcessing
          /\ (batch.pc = "running" /\ batch'.pc = "ok") =>
                 /\ batch'.successMessage # "" /\ batch'.errorMessage = ""
                 /\ ~batch'.isProcessing]_vars

\* a batch failed at its second paragraph, and the output of the batch
\* before is still shown
FailedAfterFirstParagraph ==
    /\ batch.pc = "failed" /\ ~batch.isProcessing
    /\ Len(batch.processed) >= 1 /\ batch.processed[1] # <<>>
    /\ batch.errorMessage # "" /\ batch.successMessage = ""
    /\ batch.before # <<>> /\ batch.outputText = batch.before

\* the output of an encrypt batch was decrypted as a batch under one and the
\* same secret phrase
BatchRoundTripDone ==
    /\ BatchSucceeded /\ batch.mode = "decrypt" /\ batch.original # <<>>
    /\ \A i \in 1..Len(batch.calls) : batch.calls[i].secret = batch.secret

\* C30: batch round trip. Decrypting the output of an encrypt batch with the
\* same passphrase gives the segments of the original text, each trimmed, in
\* their order and joined by one blank line, the empty ones at their places.
BatchRoundTrip ==
    BatchRoundTripDone =>
        batch.outputText
            = Join([i \in 1..Len(batch.original) |-> Trim(batch.original[i])])

\* the same for the texts whose units UTF-8 can encode
BatchRoundTripOfEncodable ==
    (BatchRoundTripDone /\ \A i \in 1..Len(batch.original) :
                               \A j \in 1..Len(batch.original[i]) :
                                   batch.original[i][j] # "SUR")
        => batch.outputText
               = Join([i \in 1..Len(batch.original) |-> Trim(batch.original[i])])

\* C23: encryptText and decryptText only read the Settings store. No step of
\* a call, settling or rejecting, changes the stored item or the settings
\* object of the Settings tab; only encryptText draws random bytes, and
\* decryptText changes nothing but its own position.
SettingsOnlyRead ==
    [][call' # call =>
           /\ store' = store
           /\ settings' = settings /\ defaultSettings' = defaultSettings
           /\ rng' # rng => call'.op = "encryptText"
           /\ call'.op = "decryptText" => (rng' = rng /\ envelopes' = envelopes)]_vars

\* calls have settled and failed while Settings were stored, which still are
StoreKeptAcrossCalls ==
    /\ call.pc = "rejected"
    /\ store.present /\ getEncryptionSettings(store) # DefaultEncryption
    /\ rng > 0

\* C24: reset to defaults. A confirmed resetSettings, after any edits, saves
\* and imports, sets the encryption settings to the built-in defaults
\* (iterations 2, memory 102400, hashLength 32) and stores exactly those.
ResetRestoresDefaults ==
    [][resetSettings => (settings' = DefaultEncryption /\ store' = Item(DefaultEncryption))]_vars

\* C25: binary envelope. The iteration count decryptText reads from the
\* header of a produced envelope is the count encryptText derived the key
\* with, whatever count the Settings supply.
HeaderIterationsAreUsed ==
    /\ \A i \in 1..Len(envelopes) :
           /\ Atob(envelopes[i].env).iterations = envelopes[i].settings.iterations
           /\ Atob(envelopes[i].env).ciphertext.key.time = envelopes[i].settings.iterations
    /\ (call.op = "decryptText" /\ "iterations" \in DOMAIN call /\ call.src > 0)
           => call.iterations = envelopes[call.src].settings.iterations

\* decryptText has read the header of an envelope made with the largest count
LargestCountRead ==
    /\ call.op = "decryptText" /\ call.pc = "resolved" /\ call.src > 0
    /\ call.iterations = Wide(2^16 - 1, 2^16 - 1)
    /\ envelopes[call.src].settings.iterations = Wide(2^16 - 1, 2^16 - 1)

\* C26: binary envelope. Decoded bytes shorter than 33 are rejected with the
\* invalid-format error and bytes whose first byte is not 2 with the
\* unsupported-version error, before deriveKey is called.
BinaryHeaderChecked ==
    (call.op = "decryptText" /\ "file" \in DOMAIN call /\ call.file = "binary"
         /\ AtobOk(call.input))
        => /\ Atob(call.input).len < 33
               => /\ call.pc = "rejected"
                  /\ call.message = "Decryption failed: Invalid encrypted data format"
           /\ (Atob(call.input).len >= 33 /\ Atob(call.input).version # 2)
               => /\ call.pc = "rejected"
                  /\ call.message = "Decryption failed: Unsupported encryption version: "
                                        \o ToString(Atob(call.input).version)

\* a short array that starts with the version byte 2 was rejected
ShortBytesRejected ==
    /\ call.op = "decryptText" /\ call.pc = "rejected" /\ AtobOk(call.input)
    /\ Atob(call.input).len = 32 /\ Atob(call.input).version = 2

\* an encryptText / decryptText call that has not settled
InFlight(c) == c.op \in {"encryptText", "decryptText"} /\ c.pc \notin {"resolved", "rejected"}

\* isLoading is set exactly while a handler of the mounted tab waits for its call
LoadingWhileCalling ==
    /\ InFlight(call) => ui.isLoading
    /\ ui.isLoading => \/ call.op = "handleEncrypt" /\ call.pc = "delay"
                       \/ call.op \in {"encryptText", "decryptText"}

\* C27: in the Encryptor tab at most one encryptText / decryptText call is in
\* flight at any time, and isLoading is set while it is.
OneCallInFlight ==
    /\ ~(InFlight(call) /\ InFlight(parked))
    /\ LoadingWhileCalling

\* C28: when encryptText or decryptText rejects, the step in which the
\* waiting handler reports it (the only step that writes errorMessage while
\* isLoading is set) leaves the plaintext and ciphertext fields as they are, sets
\* a non-empty errorMessage, leaves showResult false and resets isLoading
\* and isEncrypting; showResult is false from the handler's start on, and
\* while the handler waits the fields change only by being cleared.
RejectionLeavesFields ==
    /\ [](ui.isLoading => ~ui.showResult /\ ui.errorMessage = "")
    /\ [][/\ (ui.isLoading /\ call.pc = "rejected" /\ ui'.errorMessage # ui.errorMessage) =>
                 /\ ui'.plaintext = ui.plaintext /\ ui'.ciphertext = ui.ciphertext
                 /\ ui'.errorMessage # "" /\ ~ui'.showResult
                 /\ ~ui'.isLoading /\ ~ui'.isEncrypting
          /\ (ui.isLoading /\ ui'.isLoading /\ ui' # ui) =>
                 /\ ui'.plaintext = <<>> /\ ui'.ciphertext = EmptyText]_vars

\* both kinds of call have been rejected: an encryptText call with the
\* fields still filled, or a decryptText call on an envelope with a text typed
RejectionShown ==
    /\ ~ui.isLoading /\ ~ui.isEncrypting /\ ~ui.showResult
    /\ ui.errorMessage # ""
    /\ call.pc = "rejected"
    /\ \/ call.op = "encryptText" /\ ui.plaintext = call.plaintext
       \/ call.op = "decryptText" /\ ui.ciphertext = call.input /\ ui.plaintext # <<>>

\* C29: after clearAll the plaintext, secret and ciphertext fields stay
\* empty and showResult stays false until the user starts a new action: a
\* handler that was waiting when the form was cleared (isLoading set, the
\* secret phrase it was started with gone) ends without writing them.
ClearedStaysCleared ==
    [][(/\ ui.isLoading /\ ~ui'.isLoading
        /\ ui.plaintext = <<>> /\ ui.secret = "" /\ ui.ciphertext = EmptyText
        /\ ~ui.showResult) =>
           /\ ui'.plaintext = <<>> /\ ui'.secret = "" /\ ui'.ciphertext = EmptyText
           /\ ~ui'.showResult]_vars
====
